---- MODULE Spec2Model ----
(***************************************************************************)
(* Model of assets/icons/render_image.py: the icon render driver that      *)
(* reads XY and APP_ID from the process environment, configures every      *)
(* scene of the host and invokes the host's render operator.               *)
(*                                                                         *)
(* Text is modelled as a sequence of Unicode code points, so that parsing  *)
(* (int) and formatting ('%s' substitution) are computed character by      *)
(* character.                                                              *)
(***************************************************************************)
EXTENDS Integers, Sequences, FiniteSets, TLC

(* ---------------- bounds of the explored inputs ---------------- *)

\* longest XY text explored exhaustively
MaxXYLen == 2

\* largest number of scenes in the host collection
MaxScenes == 2

\* A text is a sequence of Unicode code points.
\* Characters the XY text is drawn from:
\*   48 '0', 52 '4', 97 'a', 45 '-', 32 ' ', 95 '_', 9 TAB,
\*   1636 U+0664 ARABIC-INDIC DIGIT FOUR
XYChars == {48, 52, 97, 45, 32, 95, 9, 1636}

\* longer XY texts explored besides: '4_0', ' +4' LF, '48'
SampleXY == {<<52, 95, 48>>, <<32, 43, 52, 10>>, <<52, 56>>}

\* sample application identifiers: "", "o", "o.A"
AppIds == {<<>>, <<111>>, <<111, 46, 65>>}

(* ---------------- text helpers ---------------- *)

\* all texts over the set S of length at most n
Texts(S, n) == UNION {[1..k -> S] : k \in 0..n}

\* n - 1 times '0', then '4': a text of n digits whose value is 4
ZeroPadded(n) == [k \in 1..n |-> IF k = n THEN 52 ELSE 48]

(* ---------------- int(text) ---------------- *)

\* sys.int_info.default_max_str_digits: the longest digit string int()
\* converts unless the runtime is configured otherwise
DefaultMaxStrDigits == 4300

\* sys.int_info.str_digits_check_threshold: the smallest limit a runtime
\* accepts (PYTHONINTMAXSTRDIGITS, -X int_max_str_digits)
MinMaxStrDigits == 640

\* n is a limit a runtime can have: 0 is no limit (older runtimes, or a limit
\* configured as 0), otherwise any value from the threshold on
IsMaxStrDigits(n) == n = 0 \/ n >= MinMaxStrDigits

\* the limits explored: none, the smallest, the default, and one above the
\* longest XY text explored
MaxStrDigitsSamples == {0, MinMaxStrDigits, DefaultMaxStrDigits, 100000}

\* the code points of the digit zero of every Unicode decimal digit block
\* (category Nd, Unicode 14.0); the nine code points after each are its
\* digits one to nine
DigitZeros ==
    {
      48, 1632, 1776, 1984, 2406, 2534, 2662, 2790, 2918, 3046,
      3174, 3302, 3430, 3558, 3664, 3792, 3872, 4160, 4240, 6112,
      6160, 6470, 6608, 6784, 6800, 6992, 7088, 7232, 7248, 42528,
      43216, 43264, 43472, 43504, 43600, 44016, 65296, 66720, 68912, 69734,
      69872, 69942, 70096, 70384, 70736, 70864, 71248, 71360, 71472, 71904,
      72016, 72784, 73040, 73120, 92768, 92864, 93008, 120782, 120792, 120802,
      120812, 120822, 123200, 123632, 125264, 130032
    }

\* every character int() reads as a decimal digit
Digits == UNION {z..(z + 9) : z \in DigitZeros}

\* the value int() gives a decimal digit: its offset in its block
DigitVal(c) ==
    IF c <= 57 THEN c - 48
    ELSE c - (CHOOSE z \in DigitZeros : z <= c /\ c <= z + 9)

\* the white space int() ignores around the number: TAB, LF, VT, FF, CR,
\* space, and the non-ASCII Unicode white space (U+0085, U+00A0, U+1680,
\* U+2000..U+200A, U+2028, U+2029, U+202F, U+205F, U+3000)
IsSpace(c) ==
    \/ 9 <= c /\ c <= 13
    \/ c \in {32, 133, 160, 5760}
    \/ 8192 <= c /\ c <= 8202
    \/ c \in {8232, 8233, 8239, 8287, 12288}

RECURSIVE LStrip(_)
LStrip(s) ==
    IF s # <<>> /\ IsSpace(Head(s)) THEN LStrip(Tail(s)) ELSE s

RECURSIVE RStrip(_)
RStrip(s) ==
    IF s # <<>> /\ IsSpace(s[Len(s)]) THEN RStrip(SubSeq(s, 1, Len(s) - 1)) ELSE s

\* the text between the ignored white space
Strip(s) == RStrip(LStrip(s))

\* '+' or '-'
HasSign(s) == s # <<>> /\ s[1] \in {43, 45}

\* the text after the optional sign
Unsigned(s) == IF HasSign(s) THEN Tail(s) ELSE s

\* a decimal literal: digits, with single underscores (95) between digits only
IsDecimal(s) ==
    /\ s # <<>>
    /\ s[1] \in Digits
    /\ s[Len(s)] \in Digits
    /\ \A k \in 1..Len(s) : s[k] = 95 \/ s[k] \in Digits
    /\ \A k \in 1..(Len(s) - 1) : ~(s[k] = 95 /\ s[k + 1] = 95)

\* the number of digits of a literal: underscores do not count, leading
\* zeros do
DigitCount(s) == Cardinality({k \in 1..Len(s) : s[k] # 95})

\* the literal is within the runtime's limit lim (0: no limit)
WithinMaxStrDigits(s, lim) == lim = 0 \/ DigitCount(s) <= lim

RECURSIVE DigitsValue(_, _)
DigitsValue(s, acc) ==
    IF s = <<>> THEN acc
    ELSE IF Head(s) = 95 THEN DigitsValue(Tail(s), acc)
    ELSE DigitsValue(Tail(s), 10 * acc + DigitVal(Head(s)))

\* positions of the digits of a literal that are not zero
NonZeroAt(s) == {k \in 1..Len(s) : s[k] # 95 /\ DigitVal(s[k]) # 0}

\* base-10 value of a literal: leading zeros contribute nothing
DecimalValue(s) ==
    CHOOSE v \in {IF nz = {} THEN 0
                  ELSE DigitsValue(SubSeq(s, CHOOSE k \in nz : \A j \in nz : k <= j, Len(s)), 0) :
                  nz \in {NonZeroAt(s)}} : TRUE

\* int(text) succeeds under the limit lim (otherwise it raises ValueError)
CanParseIntUnder(s, lim) ==
    \E t \in {Unsigned(Strip(s))} :
        /\ IsDecimal(t)
        /\ WithinMaxStrDigits(t, lim)

\* int(text), defined where int(text) succeeds
int(s) ==
    CHOOSE v \in {IF HasSign(t) /\ t[1] = 45 THEN 0 - DecimalValue(u) ELSE DecimalValue(u) :
                  <<t, u>> \in {<<Strip(s), Unsigned(Strip(s))>>}} : TRUE

(* ---------------- '%s' formatting ---------------- *)

\* the character of a digit 0..9
DigitChar(d) == 48 + d

RECURSIVE NatStr(_)
NatStr(n) ==
    IF n < 10 THEN <<DigitChar(n)>> ELSE NatStr(n \div 10) \o <<DigitChar(n % 10)>>

\* str(n) of an integer
IntStr(n) == IF n < 0 THEN <<45>> \o NatStr(0 - n) ELSE NatStr(n)

\* 'assets/icons/hicolor/'
PathPrefix ==
    <<97, 115, 115, 101, 116, 115, 47, 105, 99, 111, 110, 115, 47,
      104, 105, 99, 111, 108, 111, 114, 47>>

\* 'x'
PathX == <<120>>

\* '/apps/'
PathApps == <<47, 97, 112, 112, 115, 47>>

\* '.png'
PathSuffix == <<46, 112, 110, 103>>

\* a plausible slip: the size is formatted from the parsed integer
FormatPath_fromInt(xyText, appId) ==
    PathPrefix \o IntStr(int(xyText)) \o PathX \o IntStr(int(xyText))
        \o PathApps \o appId \o PathSuffix

\* 'assets/icons/hicolor/%sx%s/apps/%s.png' % (xy, xy, app_id)
FormatPath(xyText, appId) ==
    PathPrefix \o xyText \o PathX \o xyText \o PathApps \o appId \o PathSuffix

(* ---------------- state ---------------- *)

VARIABLES
    env,      \* os.environ: a mapping from the names that are set to their text
    scenes,   \* bpy.data.scenes: the host's scene collection, in iteration order
    xy,       \* the script's variable xy
    i,        \* position of the loop variable scene in the collection (0: loop not entered)
    pc,       \* the statement to execute next, "done" or "crashed"
    err,      \* the exception that ended the process ("" when none)
    renders,  \* the calls of bpy.ops.render.render made so far, in order
    maxStrDigits  \* the runtime's limit on the digits int() converts (0: none)

vars == <<env, scenes, xy, i, pc, err, renders, maxStrDigits>>

\* int(text) succeeds in this runtime (otherwise it raises ValueError)
CanParseInt(s) == CanParseIntUnder(s, maxStrDigits)

\* the XY texts explored with every environment and collection: every short
\* text and the samples
XYTexts == Texts(XYChars, MaxXYLen) \cup SampleXY

\* the XY texts explored with one application identifier and at most one
\* scene: zero-padded texts at and just over the smallest and the default
\* limit of int()
LongXY ==
    {ZeroPadded(MinMaxStrDigits), ZeroPadded(MinMaxStrDigits + 1),
     ZeroPadded(DefaultMaxStrDigits), ZeroPadded(DefaultMaxStrDigits + 1)}

EnvNames == {"XY", "APP_ID"}

\* value of xy before line 3 has bound it
Unbound == <<-1>>

\* the scene the host holds at position k before the script runs; name stands
\* for every field of a scene other than the four the script assigns, and
\* filepath starts as '/tmp/'
InitScene(k) ==
    [name |-> k, resolution_x |-> 1920, resolution_y |-> 1080,
     filepath |-> <<47, 116, 109, 112, 47>>, frame_end |-> 250]

InitScenes(n) == [k \in 1..n |-> InitScene(k)]

\* the state when the script starts, with XY drawn from xyTexts, APP_ID from
\* appIds (either may be unset) and at most maxScenes scenes
InitWith(xyTexts, appIds, maxScenes) ==
    /\ \E names \in SUBSET EnvNames :
         \E x \in (IF "XY" \in names THEN xyTexts ELSE {<<>>}) :
           \E a \in (IF "APP_ID" \in names THEN appIds ELSE {<<>>}) :
             env = [k \in names |-> IF k = "XY" THEN x ELSE a]
    /\ \E n \in 0..maxScenes : scenes = InitScenes(n)
    /\ xy = Unbound
    /\ i = 0
    /\ pc = "l3"
    /\ err = ""
    /\ renders = <<>>
    /\ maxStrDigits \in MaxStrDigitsSamples

Init ==
    \/ InitWith(XYTexts, AppIds, MaxScenes)
    \/ InitWith(LongXY, {<<111>>}, 1)

(* ---------------- statements ---------------- *)

\* an exception nothing catches: the process ends
Raise(e) ==
    /\ pc' = "crashed"
    /\ err' = e

\* assignment to one field of the scene the loop variable is bound to
SetField(f, v) == scenes' = [scenes EXCEPT ![i] = [@ EXCEPT ![f] = v]]

\* a plausible slip: XY is validated where it is read
Line3_eager ==
    /\ pc = "l3"
    /\ IF "XY" \notin DOMAIN env
         THEN Raise("KeyError") /\ xy' = xy
       ELSE IF ~CanParseInt(env["XY"])
         THEN Raise("ValueError") /\ xy' = xy
       ELSE xy' = env["XY"] /\ pc' = "l4" /\ err' = err
    /\ UNCHANGED <<env, scenes, i, renders, maxStrDigits>>

\* a plausible slip: APP_ID is looked up where XY is read
Line3_bothNames ==
    /\ pc = "l3"
    /\ IF EnvNames \subseteq DOMAIN env
         THEN xy' = env["XY"] /\ pc' = "l4" /\ err' = err
         ELSE Raise("KeyError") /\ xy' = xy
    /\ UNCHANGED <<env, scenes, i, renders, maxStrDigits>>

\* xy = os.environ['XY']
Line3 ==
    /\ pc = "l3"
    /\ IF "XY" \in DOMAIN env
         THEN xy' = env["XY"] /\ pc' = "l4" /\ err' = err
         ELSE Raise("KeyError") /\ xy' = xy
    /\ UNCHANGED <<env, scenes, i, renders, maxStrDigits>>

\* a plausible slip: the loop steps over every other scene
Line4_skip ==
    /\ pc = "l4"
    /\ IF i + 1 < Len(scenes)
         THEN i' = i + 2 /\ pc' = "l5"
       ELSE IF i < Len(scenes)
         THEN i' = i + 1 /\ pc' = "l5"
       ELSE i' = i /\ pc' = "done"
    /\ UNCHANGED <<env, scenes, xy, err, renders, maxStrDigits>>

\* for scene in bpy.data.scenes: bind the next scene, or leave the loop
Line4 ==
    /\ pc = "l4"
    /\ IF i < Len(scenes)
         THEN i' = i + 1 /\ pc' = "l5"
         ELSE i' = i /\ pc' = "done"
    /\ UNCHANGED <<env, scenes, xy, err, renders, maxStrDigits>>

\* scene.render.resolution_x = int(xy)
Line5 ==
    /\ pc = "l5"
    /\ IF CanParseInt(xy)
         THEN SetField("resolution_x", int(xy)) /\ pc' = "l6" /\ err' = err
         ELSE Raise("ValueError") /\ scenes' = scenes
    /\ UNCHANGED <<env, xy, i, renders, maxStrDigits>>

\* scene.render.resolution_y = int(xy)
Line6 ==
    /\ pc = "l6"
    /\ IF CanParseInt(xy)
         THEN SetField("resolution_y", int(xy)) /\ pc' = "l7" /\ err' = err
         ELSE Raise("ValueError") /\ scenes' = scenes
    /\ UNCHANGED <<env, xy, i, renders, maxStrDigits>>

\* scene.render.filepath = '...' % (xy, xy, os.environ['APP_ID'])
Line7 ==
    /\ pc = "l7"
    /\ IF "APP_ID" \in DOMAIN env
         THEN SetField("filepath", FormatPath(xy, env["APP_ID"]))
              /\ pc' = "l8" /\ err' = err
         ELSE Raise("KeyError") /\ scenes' = scenes
    /\ UNCHANGED <<env, xy, i, renders, maxStrDigits>>

\* a plausible slip: the frame range is left as the host had it
Line8_omitted ==
    /\ pc = "l8"
    /\ pc' = "l9"
    /\ UNCHANGED <<env, scenes, xy, i, err, renders, maxStrDigits>>

\* a plausible slip: the frame range is set on the whole collection
Line8_allScenes ==
    /\ pc = "l8"
    /\ scenes' = [k \in 1..Len(scenes) |-> [scenes[k] EXCEPT !.frame_end = 1]]
    /\ pc' = "l9"
    /\ UNCHANGED <<env, xy, i, err, renders, maxStrDigits>>

\* scene.frame_end = 1
Line8 ==
    /\ pc = "l8"
    /\ SetField("frame_end", 1)
    /\ pc' = "l9"
    /\ UNCHANGED <<env, xy, i, err, renders, maxStrDigits>>

\* bpy.ops.render.render(write_still=True): the call is made; the record keeps
\* the iteration it was made in and the loop's scene as it is at that moment
Line9 ==
    /\ pc = "l9"
    /\ renders' = Append(renders, [iter |-> i, write_still |-> TRUE, scene |-> scenes[i]])
    /\ pc' = "host"
    /\ UNCHANGED <<env, scenes, xy, i, err, maxStrDigits>>

\* a plausible slip: the body is run again for the same scene
HostRenderReturn_again ==
    /\ pc = "host"
    /\ pc' = "l5"
    /\ UNCHANGED <<env, scenes, xy, i, err, renders, maxStrDigits>>

\* the host's render call returns: the loop goes on
HostRenderReturn ==
    /\ pc = "host"
    /\ pc' = "l4"
    /\ UNCHANGED <<env, scenes, xy, i, err, renders, maxStrDigits>>

\* a plausible slip: the failure is swallowed and the loop goes on
HostRenderRaise_caught ==
    /\ pc = "host"
    /\ pc' = "l4"
    /\ err' = "RuntimeError"
    /\ UNCHANGED <<env, scenes, xy, i, renders, maxStrDigits>>

\* the host's render call fails: the exception propagates out of the script
HostRenderRaise ==
    /\ pc = "host"
    /\ Raise("RuntimeError")
    /\ UNCHANGED <<env, scenes, xy, i, renders, maxStrDigits>>

Next ==
    \/ Line3
    \/ Line4
    \/ Line5
    \/ Line6
    \/ Line7
    \/ Line8
    \/ Line9
    \/ HostRenderReturn
    \/ HostRenderRaise

Spec == Init /\ [][Next]_vars

\* every statement that can run does run, and every render call the host
\* was given comes back (it returns or it fails)
FairSpec == Spec /\ WF_vars(Next)

Terminal == pc \in {"done", "crashed"}

TypeOK ==
    /\ DOMAIN env \subseteq EnvNames
    /\ i \in 0..Len(scenes)
    /\ pc \in {"l3", "l4", "l5", "l6", "l7", "l8", "l9", "host", "done", "crashed"}
    /\ err \in {"", "KeyError", "ValueError", "RuntimeError"}
    /\ IsMaxStrDigits(maxStrDigits)

(* ---------------- vocabulary of the properties ---------------- *)

HasXY == "XY" \in DOMAIN env

HasAppId == "APP_ID" \in DOMAIN env

\* XY is set and int() accepts it
NumericXY == HasXY /\ CanParseInt(env["XY"])

\* XY is set and is the text of a positive integer
ValidXY == NumericXY /\ int(env["XY"]) > 0

\* the statement that assigns filepath has run for the scene at position k
PathAssigned(k) ==
    \/ k < i
    \/ k = i /\ pc \in {"l8", "l9", "host", "done"}
    \/ k = i /\ pc = "crashed" /\ err = "RuntimeError"

\* p is prefix, x, 'x', x, '/apps/', a, '.png', position by position
IsIconPath(p, x, a) ==
    LET lp == Len(PathPrefix)
        lx == Len(x)
        la == Len(a)
    IN  /\ Len(p) = lp + lx + Len(PathX) + lx + Len(PathApps) + la + Len(PathSuffix)
        /\ SubSeq(p, 1, lp) = PathPrefix
        /\ SubSeq(p, lp + 1, lp + lx) = x
        /\ SubSeq(p, lp + lx + 1, lp + lx + 1) = PathX
        /\ SubSeq(p, lp + lx + 2, lp + 2 * lx + 1) = x
        /\ SubSeq(p, lp + 2 * lx + 2, lp + 2 * lx + 1 + Len(PathApps)) = PathApps
        /\ SubSeq(p, lp + 2 * lx + 2 + Len(PathApps), lp + 2 * lx + 1 + Len(PathApps) + la) = a
        /\ SubSeq(p, Len(p) - Len(PathSuffix) + 1, Len(p)) = PathSuffix

\* the scene at position k is as the host held it before the script ran
Untouched(k) == scenes[k] = InitScene(k)

(* ---------------- C1 ---------------- *)

\* C1: for XY the text of a positive integer and a non-empty APP_ID, the
\* filepath assigned to a scene is exactly 'assets/icons/hicolor/' XY 'x' XY
\* '/apps/' APP_ID '.png', with the XY and APP_ID texts verbatim.
C1_PathExact ==
    \A k \in 1..Len(scenes) :
        (PathAssigned(k) /\ HasAppId /\ env["APP_ID"] # <<>> /\ ValidXY) =>
            IsIconPath(scenes[k].filepath, env["XY"], env["APP_ID"])

\* the path has been assigned from an XY whose text is not the canonical
\* decimal of its value
C1_Witness ==
    /\ pc = "l8"
    /\ HasAppId
    /\ env["XY"] = <<48, 52>>
    /\ env["APP_ID"] = <<111, 46, 65>>
    /\ ValidXY
    /\ scenes[i].filepath # InitScene(i).filepath

(* ---------------- C2 ---------------- *)

\* C2: if XY is absent or non-numeric then, whatever the scene collection, the
\* process ends in failure and no render call is made.
C2_FailsWithoutNumericXY ==
    (~HasXY \/ ~CanParseInt(env["XY"])) =>
        /\ renders = <<>>
        /\ Terminal => pc = "crashed"

(* ---------------- C3 ---------------- *)

\* C3: if APP_ID is absent (XY valid) then, whatever the scene collection, the
\* process ends in failure and no render call is made.
C3_FailsWithoutAppId ==
    (~HasAppId /\ ValidXY) =>
        /\ renders = <<>>
        /\ Terminal => pc = "crashed"

(* ---------------- C4 ---------------- *)

\* C4: the render calls are made one per scene, in collection order, none
\* twice and none skipped, all with the same output path; when every call
\* succeeds and the loop ends there are exactly as many calls as scenes.
C4_OneRenderPerSceneInOrder ==
    /\ \A k \in 1..Len(renders) :
         /\ renders[k].iter = k
         /\ renders[k].scene.name = InitScene(k).name
         /\ renders[k].scene.filepath = renders[1].scene.filepath
    /\ pc = "done" => Len(renders) = Len(scenes)

\* two scenes, both rendered, the loop left normally
C4_Witness ==
    /\ pc = "done"
    /\ Len(scenes) >= 2
    /\ Len(renders) = Len(scenes)

(* ---------------- C5 ---------------- *)

\* C5: at each render call the loop's scene already has resolution_x =
\* resolution_y = int(XY), frame_end = 1 and filepath = the computed path, and
\* none of them is assigned after the call.
C5_ConfiguredBeforeRender ==
    \A k \in 1..Len(renders) :
        LET r == renders[k]
        IN  /\ r.scene.resolution_x = int(env["XY"])
            /\ r.scene.resolution_y = int(env["XY"])
            /\ r.scene.frame_end = 1
            /\ r.scene.filepath = FormatPath(env["XY"], env["APP_ID"])
            /\ scenes[r.iter] = r.scene

\* a render call is in progress for a scene whose fields all differ from
\* those the host started with
C5_Witness ==
    /\ pc = "host"
    /\ renders # <<>>
    /\ int(env["XY"]) = 40
    /\ scenes[i].resolution_x = 40

(* ---------------- C6 ---------------- *)

\* what a step of the script may change in the scene collection
C6_FrameStep ==
    /\ Len(scenes') = Len(scenes)
    /\ \A k \in 1..Len(scenes) :
         /\ scenes'[k].name = scenes[k].name
         /\ DOMAIN scenes'[k] = DOMAIN scenes[k]
         /\ k # i' => scenes'[k] = scenes[k]

\* C6: the script changes nothing of the scenes but resolution_x,
\* resolution_y, filepath and frame_end: no scene is created or destroyed,
\* every other field keeps its value, and a scene the loop has not reached is
\* as it was at the start.
C6_OnlyFourFields ==
    /\ [](\A k \in 1..Len(scenes) : k > i => Untouched(k))
    /\ [][C6_FrameStep]_vars

\* the first scene is fully configured while a second one is still waiting
C6_Witness ==
    /\ Len(scenes) >= 2
    /\ i = 1
    /\ pc = "l9"
    /\ ~Untouched(1)

(* ---------------- C7 ---------------- *)

\* C7: when the host's render call fails for the k-th scene the process is in
\* its failure state, exactly k render calls have been made (the failed one
\* is not repeated) and no scene after the k-th has been touched.
C7_RenderFailureIsFatal ==
    err = "RuntimeError" =>
        /\ pc = "crashed"
        /\ Len(renders) = i
        /\ \A k \in 1..Len(renders) : renders[k].iter = k
        /\ \A k \in 1..Len(scenes) : k > i => Untouched(k)

\* the render of the first of two scenes has failed
C7_Witness ==
    /\ err = "RuntimeError"
    /\ i = 1
    /\ Len(scenes) >= 2

(* ---------------- C8 ---------------- *)

\* C8: the script reaches a terminal state, normal completion with all scenes
\* processed or a crash; the loop never goes back to a scene and at most one
\* render call is made per scene.
C8_Terminates ==
    /\ <>Terminal
    /\ [](pc = "done" => i = Len(scenes) /\ err = "")
    /\ [](pc = "crashed" => err # "")
    /\ [](\A j, k \in 1..Len(renders) : j # k => renders[j].iter # renders[k].iter)
    /\ [][i' \in {i, i + 1}]_vars

\* normal completion after two scenes
C8_Witness ==
    /\ pc = "done"
    /\ i >= 2
    /\ Len(renders) >= 2

(* ---------------- C9 ---------------- *)

\* C9: with XY numeric, APP_ID absent and at least one scene, the process
\* fails with the first scene's resolution_x and resolution_y set to int(XY),
\* its filepath and frame_end as they were, and every other scene untouched.
C9_PartialFirstScene ==
    (~HasAppId /\ Len(scenes) >= 1 /\ NumericXY) =>
        /\ pc \in {"l3", "l4", "l5", "l6", "l7", "crashed"}
        /\ i <= 1
        /\ renders = <<>>
        /\ pc = "crashed" =>
             /\ err = "KeyError"
             /\ i = 1
             /\ scenes[1] = [InitScene(1) EXCEPT !.resolution_x = int(env["XY"]),
                                                 !.resolution_y = int(env["XY"])]
             /\ \A k \in 2..Len(scenes) : Untouched(k)

\* the process has failed on the missing APP_ID with two scenes loaded
C9_Witness ==
    /\ pc = "crashed"
    /\ Len(scenes) >= 2
    /\ ~HasAppId /\ NumericXY
    /\ scenes[1].resolution_x = int(env["XY"])

(* ---------------- C10 ---------------- *)

\* C10: with XY set and no scene, the script ends normally with no scene
\* assignment and no render call, whether or not XY is numeric and whether or
\* not APP_ID is set.
C10_EmptyCollectionEndsNormally ==
    (HasXY /\ scenes = <<>>) =>
        /\ pc \in {"l3", "l4", "done"}
        /\ err = ""
        /\ i = 0
        /\ renders = <<>>
        /\ pc # "l3" => xy = env["XY"]

\* normal end with a non-numeric XY and no APP_ID
C10_Witness ==
    /\ pc = "done"
    /\ scenes = <<>>
    /\ HasXY /\ ~CanParseInt(env["XY"])
    /\ ~HasAppId

====
